---- MODULE Spec2Model ----
(***************************************************************************)
(* State-machine model of the Door Discovery single-page client            *)
(* (frontend/src/App.js): the AuthProvider session manager, the router     *)
(* with its ProtectedRoute gate, the NavBar notification polling, the Home *)
(* door list, the DoorDetail comment list, the MapView markers and the     *)
(* api data-access functions.                                              *)
(*                                                                         *)
(* One action is one task of the browser's event loop: a user event        *)
(* handler up to its first await, or the continuation of a handler after   *)
(* the response it awaits, together with the React render and the effects  *)
(* that the state updates of that task cause.                              *)
(***************************************************************************)
EXTENDS Naturals, Sequences, FiniteSets, TLC

\* ------------------------------------------------------------------------
\* Bounds and the universe of values
\* ------------------------------------------------------------------------

\* requests that may be in flight at once in the session specification
MaxInFlight == 3

None == "null"

Users == {"u1", "u2"}

Tokens == {"t1", "t2"}

Categories == {"A", "B"}

Routes == {"/", "/login", "/map", "/doors"}

\* ------------------------------------------------------------------------
\* The backend, as far as the client observes it
\* ------------------------------------------------------------------------

\* POST /api/token: the access token the backend returns for a user
TokenFor(u) == IF u = "u1" THEN "t1" ELSE "t2"

\* GET /api/users/me: the user a bearer token authenticates
UserOf(t) == IF t = "t1" THEN "u1" ELSE "u2"

\* the door collection held by the backend
DoorsDB ==
  << [id |-> "d1", category |-> "A"],
     [id |-> "d2", category |-> "B"],
     [id |-> "d3", category |-> "A"] >>

\* GET /api/doors[?category=]
GetDoorsResponse(category) ==
  IF category = None THEN DoorsDB
  ELSE SelectSeq(DoorsDB, LAMBDA d : d.category = category)

\* the notifications held by the backend, one per user
NotifDB ==
  << [id |-> "n1", user |-> "u1", door_id |-> "d1"],
     [id |-> "n2", user |-> "u2", door_id |-> "d2"],
     [id |-> "n3", user |-> "u1", door_id |-> "d2"] >>

NotifView(n, read) ==
  [id |-> n.id, user |-> n.user, door_id |-> n.door_id, is_read |-> (n.id \in read)]

RECURSIVE MapNotifs(_, _)
MapNotifs(ns, read) ==
  IF ns = << >> THEN << >>
  ELSE << NotifView(Head(ns), read) >> \o MapNotifs(Tail(ns), read)

\* GET /api/notifications for the user of bearer token t
GetNotificationsResponse(t, read) ==
  MapNotifs(SelectSeq(NotifDB, LAMBDA n : n.user = UserOf(t)), read)

\* ------------------------------------------------------------------------
\* State
\* ------------------------------------------------------------------------
VARIABLES
  localStorage,       \* value under localStorage key 'token', None if absent
  token,              \* AuthProvider: token state
  currentUser,        \* AuthProvider: currentUser state
  loading,            \* AuthProvider: loading state
  restore,            \* position of the start-up fetchCurrentUser
  route,              \* current location of the BrowserRouter
  net,                \* requests in flight
  timers,             \* active setInterval timers of NavBar
  notifications,      \* NavBar: notifications state
  showNotifications,  \* NavBar: showNotifications state
  srvRead,            \* backend: ids of the notifications marked read
  doors,              \* Home: doors state
  homeLoading,        \* Home: loading state
  activeCategory,     \* Home: activeCategory state
  homeFailed,         \* Home: "Failed to load doors" toast was raised
  loginLoading,       \* Login: loading state
  loginError,         \* Login: error state
  regLoading,         \* Register: loading state
  regError,           \* Register: error state
  rnet,               \* requests of Register.handleSubmit in flight
  addImage,           \* AddDoor: image state
  addCategory,        \* AddDoor: category state
  addLocation,        \* AddDoor: location state
  loadingLocation,    \* AddDoor: loadingLocation state
  addSubmitting,      \* AddDoor: submitting state
  addError,           \* AddDoor: error state
  addGeo,             \* AddDoor: position of its getCurrentPosition call
  anet,               \* create-door requests in flight
  detailMounted,      \* DoorDetail is the route element on screen
  detailId,           \* DoorDetail: the id of useParams()
  door,               \* DoorDetail: door state
  comments,           \* DoorDetail: comments state
  newComment,         \* DoorDetail: newComment state
  detailLoading,      \* DoorDetail: loading state
  submitting,         \* DoorDetail: submitting state
  dnet,               \* requests of DoorDetail in flight
  srvComments,        \* backend: the comments of each door
  mapMounted,         \* MapView is the route element on screen
  mapDoors,           \* MapView: doors state
  mapLoading,         \* MapView: loading state
  viewport,           \* MapView: viewport state
  mapCurrent,         \* MapView: map.current, the mapboxgl.Map instance
  markers,            \* the .mapboxgl-marker elements in the document
  geo,                \* position of navigator.geolocation.getCurrentPosition
  mnet,               \* doors requests of MapView in flight
  apiPc,              \* position of one invocation of an api function
  apiCall,            \* that invocation: the function and its arguments
  apiRequests,        \* the HTTP requests the invocation has issued
  apiResponse,        \* what the backend answered
  apiResult           \* what the invocation returned or threw

sessionVars ==
  << localStorage, token, currentUser, loading, restore, route, net, timers,
     notifications, showNotifications, srvRead, doors, homeLoading,
     activeCategory, homeFailed, loginLoading, loginError,
     regLoading, regError, rnet,
     addImage, addCategory, addLocation, loadingLocation, addSubmitting,
     addError, addGeo, anet >>

detailVars ==
  << detailMounted, detailId, door, comments, newComment, detailLoading,
     submitting, dnet, srvComments >>

mapVars ==
  << mapMounted, mapDoors, mapLoading, viewport, mapCurrent, markers, geo, mnet >>

apiVars == << apiPc, apiCall, apiRequests, apiResponse, apiResult >>

vars == << sessionVars, detailVars, mapVars, apiVars >>

\* the session state as one record, so that handlers compose as functions
Cur ==
  [ localStorage |-> localStorage, token |-> token, currentUser |-> currentUser,
    loading |-> loading, restore |-> restore, route |-> route, net |-> net,
    timers |-> timers, notifications |-> notifications,
    showNotifications |-> showNotifications, srvRead |-> srvRead,
    doors |-> doors, homeLoading |-> homeLoading,
    activeCategory |-> activeCategory, homeFailed |-> homeFailed,
    loginLoading |-> loginLoading, loginError |-> loginError,
    regLoading |-> regLoading, regError |-> regError, rnet |-> rnet,
    addImage |-> addImage, addCategory |-> addCategory,
    addLocation |-> addLocation, loadingLocation |-> loadingLocation,
    addSubmitting |-> addSubmitting, addError |-> addError,
    addGeo |-> addGeo, anet |-> anet ]

Becomes(s) ==
  /\ localStorage' = s.localStorage
  /\ token' = s.token
  /\ currentUser' = s.currentUser
  /\ loading' = s.loading
  /\ restore' = s.restore
  /\ route' = s.route
  /\ net' = s.net
  /\ timers' = s.timers
  /\ notifications' = s.notifications
  /\ showNotifications' = s.showNotifications
  /\ srvRead' = s.srvRead
  /\ doors' = s.doors
  /\ homeLoading' = s.homeLoading
  /\ activeCategory' = s.activeCategory
  /\ homeFailed' = s.homeFailed
  /\ loginLoading' = s.loginLoading
  /\ loginError' = s.loginError
  /\ regLoading' = s.regLoading
  /\ regError' = s.regError
  /\ rnet' = s.rnet
  /\ addImage' = s.addImage
  /\ addCategory' = s.addCategory
  /\ addLocation' = s.addLocation
  /\ loadingLocation' = s.loadingLocation
  /\ addSubmitting' = s.addSubmitting
  /\ addError' = s.addError
  /\ addGeo' = s.addGeo
  /\ anet' = s.anet
  /\ UNCHANGED << detailVars, mapVars, apiVars >>

\* ------------------------------------------------------------------------
\* Requests
\* ------------------------------------------------------------------------

\* A request in flight.  auth is the token of its Authorization header
\* (None when the header is 'Bearer null' or absent), sess the session token
\* at the moment the request was issued, arg its parameter, live whether the
\* component instance that awaits it is still mounted.
Request(kind, auth, sess, arg) ==
  [kind |-> kind, auth |-> auth, sess |-> sess, arg |-> arg, live |-> TRUE]

Issue(s, kind, auth, arg) ==
  [s EXCEPT !.net = @ \cup {Request(kind, auth, s.token, arg)}]

Orphan(s, kind) ==
  [s EXCEPT !.net = {IF r.kind = kind THEN [r EXCEPT !.live = FALSE] ELSE r : r \in @}]

Answered(s, r) == [s EXCEPT !.net = @ \ {r}]

\* ------------------------------------------------------------------------
\* AuthProvider
\* ------------------------------------------------------------------------

isAuthenticated(s) == s.currentUser # None

fetchCurrentUser(s) == Issue(s, "me", s.token, None)

logout_keepsStoredToken(s) ==
  [s EXCEPT !.token = None, !.currentUser = None]

logout(s) ==
  [s EXCEPT !.localStorage = None, !.token = None, !.currentUser = None]

\* the catch block of fetchCurrentUser
fetchCurrentUserFailed_noLogout(s) == s

fetchCurrentUserFailed(s) == logout(s)

\* login() after a successful POST /token
loginSucceeded_notPersisted(s, access_token) ==
  [s EXCEPT !.token = access_token]

loginSucceeded(s, access_token) ==
  [s EXCEPT !.localStorage = access_token, !.token = access_token]

\* useEffect(..., [token]) of AuthProvider
AuthEffect(s) ==
  IF s.token # None THEN fetchCurrentUser(s) ELSE [s EXCEPT !.loading = FALSE]

\* ------------------------------------------------------------------------
\* Router
\* ------------------------------------------------------------------------

ProtectedRoutes == {"/map", "/doors", "/add-door"}

\* the route element that is on screen; nothing while AuthProvider loads
ViewOf(s) == IF s.loading THEN "none" ELSE s.route

ProtectedRoute_rendersChildren(s) == s

ProtectedRoute(s) ==
  IF s.route \in ProtectedRoutes /\ ~isAuthenticated(s)
  THEN [s EXCEPT !.route = "/login"]
  ELSE s

\* ------------------------------------------------------------------------
\* NavBar
\* ------------------------------------------------------------------------

fetchNotifications(s, tok) == Issue(s, "notifications", tok, None)

NavBarEffect_noCleanup(s) ==
  IF s.token # None
  THEN [fetchNotifications(s, s.token) EXCEPT !.timers = @ \cup {[token |-> s.token]}]
  ELSE s

\* useEffect(..., [token]) of NavBar: cleanup of the previous run, then the body
NavBarEffect(s) ==
  LET cleared == [s EXCEPT !.timers = {}]
  IN IF s.token # None
     THEN [fetchNotifications(cleared, s.token) EXCEPT !.timers = {[token |-> s.token]}]
     ELSE cleared

RECURSIVE MarkLocally(_, _)
MarkLocally(ns, id) ==
  IF ns = << >> THEN << >>
  ELSE << IF Head(ns).id = id THEN [Head(ns) EXCEPT !.is_read = TRUE] ELSE Head(ns) >>
         \o MarkLocally(Tail(ns), id)

handleNotificationClick_marksLocally(s, notification) ==
  [Issue(s, "markRead", s.token, notification.id) EXCEPT
     !.notifications = MarkLocally(@, notification.id)]

\* handleNotificationClick up to its await of api.markNotificationAsRead
handleNotificationClick(s, notification) ==
  Issue(s, "markRead", s.token, notification.id)

unreadCount_countsAll(ns) == Len(ns)

\* unreadCount of NavBar
unreadCount(ns) == Len(SelectSeq(ns, LAMBDA n : ~n.is_read))

\* the number in the red badge on the bell, 0 when no badge is rendered:
\* the bell belongs to the block NavBar renders for a signed-in user
Badge(s) ==
  IF ~s.loading /\ s.currentUser # None /\ unreadCount(s.notifications) > 0
  THEN unreadCount(s.notifications)
  ELSE 0

NavBarMount(s) ==
  NavBarEffect([s EXCEPT !.notifications = << >>, !.showNotifications = FALSE])

\* ------------------------------------------------------------------------
\* Home
\* ------------------------------------------------------------------------

HomeFetchDoors(s) ==
  Issue([s EXCEPT !.homeLoading = TRUE], "doors", s.token, s.activeCategory)

\* useEffect(..., [isAuthenticated, activeCategory]) of Home
HomeEffect(s) == IF isAuthenticated(s) THEN HomeFetchDoors(s) ELSE s

HomeInitial(s) ==
  [s EXCEPT !.doors = << >>, !.homeLoading = TRUE, !.activeCategory = None,
            !.homeFailed = FALSE]

HomeUnmount(s) == HomeInitial(Orphan(s, "doors"))

\* ------------------------------------------------------------------------
\* Login
\* ------------------------------------------------------------------------

LoginInitial(s) == [s EXCEPT !.loginLoading = FALSE, !.loginError = ""]

\* error.response?.data?.detail of a rejected POST /token: None when there is
\* no response or no detail field
Details == {None, "", "Incorrect email or password"}

loginErrorMessage_alwaysGeneric(detail) == "Login failed"

\* the message of the Error that the catch block of login() throws
loginErrorMessage(detail) ==
  IF detail \in {None, ""} THEN "Login failed" ELSE detail

\* the catch and finally blocks of Login.handleSubmit
LoginHandleError(s, message) ==
  [s EXCEPT !.loginError = message, !.loginLoading = FALSE]

LoginUnmount(s) == LoginInitial(Orphan(s, "token"))

\* ------------------------------------------------------------------------
\* Register
\* ------------------------------------------------------------------------

Passwords == {"p", "q"}

\* the four fields of the registration form at the moment it is submitted
RegisterForms ==
  {[name |-> u, email |-> u, password |-> "p", confirmPassword |-> c] :
     u \in Users, c \in Passwords}

RegisterInitial(s) == [s EXCEPT !.regLoading = FALSE, !.regError = ""]

RegisterUnmount(s) ==
  RegisterInitial([s EXCEPT !.rnet = {[r EXCEPT !.live = FALSE] : r \in @}])

\* register(): the JSON body of POST /register
RegisterBody(form) ==
  [name |-> form.name, email |-> form.email, password |-> form.password]

\* login(): the form data of POST /token
TokenBody(email, password) == [username |-> email, password |-> password]

RegisterHandleSubmit_loadsBeforeCheck(s, form) ==
  IF form.password # form.confirmPassword
  THEN [s EXCEPT !.regLoading = TRUE, !.regError = "Passwords do not match"]
  ELSE [s EXCEPT !.regLoading = TRUE, !.regError = "",
                 !.rnet = @ \cup {[kind |-> "register", body |-> RegisterBody(form),
                                   live |-> TRUE]}]

RegisterHandleSubmit_noCheck(s, form) ==
  [s EXCEPT !.regLoading = TRUE, !.regError = "",
            !.rnet = @ \cup {[kind |-> "register", body |-> RegisterBody(form),
                              live |-> TRUE]}]

\* Register.handleSubmit up to its await of register()
RegisterHandleSubmit(s, form) ==
  IF form.password # form.confirmPassword
  THEN [s EXCEPT !.regError = "Passwords do not match"]
  ELSE [s EXCEPT !.regLoading = TRUE, !.regError = "",
                 !.rnet = @ \cup {[kind |-> "register", body |-> RegisterBody(form),
                                   live |-> TRUE]}]

registerSucceeded_storesToken(s, body) ==
  [s EXCEPT !.localStorage = TokenFor(body.email), !.token = TokenFor(body.email)]

\* register() after a successful POST /register: it returns true
registerSucceeded(s, body) == s

\* ------------------------------------------------------------------------
\* AddDoor
\* ------------------------------------------------------------------------

\* location state before a position is known
NoLocation == [latitude |-> None, longitude |-> None]

\* the coordinates getCurrentPosition reports
Position == [latitude |-> "lat", longitude |-> "lng"]

AddDoorInitial(s) ==
  [s EXCEPT !.addImage = None, !.addCategory = "", !.addLocation = NoLocation,
            !.loadingLocation = TRUE, !.addSubmitting = FALSE, !.addError = ""]

\* useEffect(..., []) of AddDoor
AddDoorEffect(s) ==
  IF s.addGeo = "unsupported"
  THEN [s EXCEPT !.addError = "Geolocation is not supported by your browser",
                 !.loadingLocation = FALSE]
  ELSE [s EXCEPT !.addGeo = "pending"]

AddDoorUnmount(s) ==
  AddDoorInitial([s EXCEPT !.anet = {[r EXCEPT !.live = FALSE] : r \in @},
                           !.addGeo = IF @ = "unsupported" THEN @ ELSE "idle"])

\* the doorData object of AddDoor.handleSubmit
AddDoorData(s) ==
  [title |-> "title", description |-> "description", place_name |-> "place",
   history |-> "history", category |-> s.addCategory,
   location |-> s.addLocation, image |-> s.addImage]

\* the FormData createDoor builds: every key but location, then latitude
\* and longitude
DoorFormData(doorData) ==
  [k \in (DOMAIN doorData \ {"location"}) \cup {"latitude", "longitude"} |->
     IF k = "latitude" THEN doorData.location.latitude
     ELSE IF k = "longitude" THEN doorData.location.longitude
     ELSE doorData[k]]

CreateDoorRequest(tok, doorData) ==
  [method |-> "POST", url |-> << "/doors" >>, auth |-> tok,
   body |-> DoorFormData(doorData), live |-> TRUE]

AddDoorHandleSubmit_noImageCheck(s) ==
  IF s.addCategory = "" THEN [s EXCEPT !.addError = "Please select a category"]
  ELSE IF s.addLocation = NoLocation
  THEN [s EXCEPT !.addError = "Location is required. Please allow location access."]
  ELSE [s EXCEPT !.addSubmitting = TRUE, !.addError = "",
                 !.anet = @ \cup {CreateDoorRequest(s.token, AddDoorData(s))}]

\* AddDoor.handleSubmit up to its await of api.createDoor
AddDoorHandleSubmit(s) ==
  IF s.addImage = None THEN [s EXCEPT !.addError = "Please select an image"]
  ELSE IF s.addCategory = "" THEN [s EXCEPT !.addError = "Please select a category"]
  ELSE IF s.addLocation = NoLocation
  THEN [s EXCEPT !.addError = "Location is required. Please allow location access."]
  ELSE [s EXCEPT !.addSubmitting = TRUE, !.addError = "",
                 !.anet = @ \cup {CreateDoorRequest(s.token, AddDoorData(s))}]

\* ------------------------------------------------------------------------
\* Render: what React does after a task changed the state from old to new
\* ------------------------------------------------------------------------

\* AuthProvider re-renders; its token effect runs when token changed
SettleAuth(old, new) ==
  IF new.token # old.token THEN AuthEffect(new) ELSE new

\* NavBar is a child of AuthProvider: mounted while loading is false
SettleNavBar(old, s) ==
  IF s.loading THEN s
  ELSE IF old.loading THEN NavBarMount(s)
  ELSE IF s.token # old.token THEN NavBarEffect(s)
  ELSE s

\* the route element: unmount the view that left, mount the one that came
SettleView(old, s) ==
  LET was == ViewOf(old)
      now == ViewOf(s)
      left == IF was = now THEN s
              ELSE IF was = "/" THEN HomeUnmount(s)
              ELSE IF was = "/login" THEN LoginUnmount(s)
              ELSE IF was = "/register" THEN RegisterUnmount(s)
              ELSE IF was = "/add-door" THEN AddDoorUnmount(s)
              ELSE s
  IN IF now = "/"
     THEN IF was # "/" THEN HomeEffect(HomeInitial(left))
          ELSE IF isAuthenticated(s) # isAuthenticated(old)
                  \/ s.activeCategory # old.activeCategory
               THEN HomeEffect(left)
               ELSE left
     ELSE IF now = "/login" /\ was # "/login" THEN LoginInitial(left)
     ELSE IF now = "/register" /\ was # "/register" THEN RegisterInitial(left)
     ELSE IF now = "/add-door" /\ was # "/add-door"
     THEN AddDoorEffect(AddDoorInitial(left))
     ELSE left

Settle(old, new) ==
  LET a == SettleAuth(old, new)
      g == IF a.loading THEN a ELSE ProtectedRoute(a)
  IN SettleView(old, SettleNavBar(old, g))

\* ------------------------------------------------------------------------
\* DoorDetail
\* ------------------------------------------------------------------------

\* comments a door may collect in the DoorDetail specification
MaxComments == 2

DoorIds == {"d1", "d2"}

\* DoorDetail requests that may be in flight at once
MaxDetailInFlight == 2

Texts == {"x"}

\* a text for which newComment.trim() is empty
Blank == " "

Comment(d, n, text) == [door_id |-> d, n |-> n, text |-> text]

\* the comments the backend holds before anything is posted
SeedComments == [d \in DoorIds |-> << Comment(d, 1, "seed") >>]

\* DoorDetail before it is ever mounted
DetailAbsent ==
  /\ detailMounted = FALSE
  /\ detailId = None
  /\ door = None
  /\ comments = << >>
  /\ newComment = ""
  /\ detailLoading = TRUE
  /\ submitting = FALSE
  /\ dnet = {}
  /\ srvComments = SeedComments

\* ------------------------------------------------------------------------
\* MapView
\* ------------------------------------------------------------------------

\* MapView before it is ever mounted
MapAbsent ==
  /\ mapMounted = FALSE
  /\ mapDoors = << >>
  /\ mapLoading = TRUE
  /\ viewport = "default"
  /\ mapCurrent = None
  /\ markers = {}
  /\ geo = "idle"
  /\ mnet = {}

\* ------------------------------------------------------------------------
\* api
\* ------------------------------------------------------------------------

NoCall == [fn |-> None, token |-> None, arg |-> None]

Nothing == [kind |-> "none", value |-> None]

\* no api function is being invoked
ApiAbsent ==
  /\ apiPc = "idle"
  /\ apiCall = NoCall
  /\ apiRequests = << >>
  /\ apiResponse = Nothing
  /\ apiResult = Nothing

\* ------------------------------------------------------------------------
\* Application start (page load)
\* ------------------------------------------------------------------------

\* the state of a freshly loaded page before AuthProvider's first effect
Loaded(stored, url, read) ==
  [ localStorage |-> stored, token |-> stored, currentUser |-> None,
    loading |-> TRUE, restore |-> IF stored # None THEN "pending" ELSE "idle",
    route |-> url, net |-> {}, timers |-> {}, notifications |-> << >>,
    showNotifications |-> FALSE, srvRead |-> read, doors |-> << >>,
    homeLoading |-> TRUE, activeCategory |-> None, homeFailed |-> FALSE,
    loginLoading |-> FALSE, loginError |-> "",
    regLoading |-> FALSE, regError |-> "", rnet |-> {},
    addImage |-> None, addCategory |-> "", addLocation |-> NoLocation,
    loadingLocation |-> TRUE, addSubmitting |-> FALSE, addError |-> "",
    addGeo |-> "idle", anet |-> {} ]

Started(stored, url, read) ==
  LET s0 == Loaded(stored, url, read)
      a == AuthEffect(s0)
      g == IF a.loading THEN a ELSE ProtectedRoute(a)
  IN SettleView(s0, SettleNavBar(s0, g))

Is(s) ==
  /\ localStorage = s.localStorage
  /\ token = s.token
  /\ currentUser = s.currentUser
  /\ loading = s.loading
  /\ restore = s.restore
  /\ route = s.route
  /\ net = s.net
  /\ timers = s.timers
  /\ notifications = s.notifications
  /\ showNotifications = s.showNotifications
  /\ srvRead = s.srvRead
  /\ doors = s.doors
  /\ homeLoading = s.homeLoading
  /\ activeCategory = s.activeCategory
  /\ homeFailed = s.homeFailed
  /\ loginLoading = s.loginLoading
  /\ loginError = s.loginError
  /\ regLoading = s.regLoading
  /\ regError = s.regError
  /\ rnet = s.rnet
  /\ addImage = s.addImage
  /\ addCategory = s.addCategory
  /\ addLocation = s.addLocation
  /\ loadingLocation = s.loadingLocation
  /\ addSubmitting = s.addSubmitting
  /\ addError = s.addError
  /\ addGeo = s.addGeo
  /\ anet = s.anet

\* a first visit: nothing stored yet (only login ever stores a token)
Init ==
  /\ \E url \in Routes : Is(Started(None, url, {}))
  /\ DetailAbsent
  /\ MapAbsent
  /\ ApiAbsent

\* the bound on the requests in flight, as a guard on the next state
Bounded == Cardinality(net') <= MaxInFlight

\* reloading the page or opening a URL: in-memory state and pending
\* continuations are gone, localStorage and the backend remain
AppStart(url) ==
  /\ Becomes(Started(localStorage, url, srvRead))
  /\ Bounded

\* ------------------------------------------------------------------------
\* AuthProvider actions
\* ------------------------------------------------------------------------

\* fetchCurrentUser after its await: GET /users/me answered
MeResponse(r, ok) ==
  /\ r \in net /\ r.kind = "me"
  /\ ok => r.auth # None
  /\ LET s == Answered(Cur, r)
         done == IF ok THEN [s EXCEPT !.currentUser = UserOf(r.auth)]
                 ELSE fetchCurrentUserFailed(s)
         fin == [done EXCEPT !.loading = FALSE,
                             !.restore = IF @ = "pending"
                                         THEN (IF ok THEN "ok" ELSE "failed") ELSE @]
     IN Becomes(Settle(Cur, fin))
  /\ Bounded

\* Login.handleSubmit up to its await of login(): POST /token is sent
LoginSubmit(u) ==
  /\ ViewOf(Cur) = "/login"
  /\ ~loginLoading
  /\ Becomes(Issue([Cur EXCEPT !.loginLoading = TRUE, !.loginError = ""],
                    "token", None, u))
  /\ Bounded

\* POST /token rejected: login() throws, Login.handleSubmit catches
LoginRejected(r, detail) ==
  /\ r \in net /\ r.kind = "token"
  /\ LET s == Answered(Cur, r)
     IN Becomes(IF r.live
                THEN Settle(Cur, LoginHandleError(s, loginErrorMessage(detail)))
                ELSE s)
  /\ Bounded

\* login() after its await, then the rest of Login.handleSubmit
LoginResponse(r, ok) ==
  IF ok
  THEN /\ r \in net /\ r.kind = "token"
       /\ LET s == Answered(Cur, r)
              access_token == TokenFor(r.arg)
              stored == loginSucceeded(s, access_token)
              fin == IF r.live THEN [stored EXCEPT !.loginLoading = FALSE]
                     ELSE stored
          IN Becomes(Settle(Cur, [fin EXCEPT !.route = "/"]))
       /\ Bounded
  ELSE \E detail \in Details : LoginRejected(r, detail)

\* the Sign out button of NavBar
Logout ==
  /\ ~loading
  /\ currentUser # None
  /\ Becomes(Settle(Cur, logout(Cur)))
  /\ Bounded

\* ------------------------------------------------------------------------
\* Router actions
\* ------------------------------------------------------------------------

\* a link, navigate() from a view, or the browser's back and forward buttons
Navigate(url) ==
  /\ ~loading
  /\ url # route
  /\ Becomes(Settle(Cur, [Cur EXCEPT !.route = url]))
  /\ Bounded

\* ------------------------------------------------------------------------
\* NavBar actions
\* ------------------------------------------------------------------------

\* the setInterval callback fires
TimerTick(tm) ==
  /\ tm \in timers
  /\ Becomes(fetchNotifications(Cur, tm.token))
  /\ Bounded

\* fetchNotifications after its await
NotificationsResponse(r, ok) ==
  /\ r \in net /\ r.kind = "notifications"
  /\ ok => r.auth # None
  /\ LET s == Answered(Cur, r)
     IN Becomes(IF ok
                THEN [s EXCEPT !.notifications = GetNotificationsResponse(r.auth, srvRead)]
                ELSE s)
  /\ Bounded

\* the bell button
ToggleNotifications ==
  /\ ~loading
  /\ currentUser # None
  /\ Becomes([Cur EXCEPT !.showNotifications = ~@])
  /\ Bounded

\* handleNotificationClick up to its await
NotificationClick(i) ==
  /\ ~loading
  /\ currentUser # None
  /\ showNotifications
  /\ i \in 1..Len(notifications)
  /\ Becomes(handleNotificationClick(Cur, notifications[i]))
  /\ Bounded

\* handleNotificationClick after its await; fetchNotifications is the one of
\* the render in which the click happened and sends that render's token
MarkReadResponse(r, ok) ==
  /\ r \in net /\ r.kind = "markRead"
  /\ ok => r.auth # None
  /\ LET s == Answered(Cur, r)
     IN IF ok
        THEN LET marked == [s EXCEPT !.srvRead = @ \cup {r.arg}]
                 fetched == fetchNotifications(marked, r.auth)
             IN Becomes(Settle(Cur, [fetched EXCEPT !.route = "/doors",
                                                    !.showNotifications = FALSE]))
        ELSE Becomes(s)
  /\ Bounded

\* ------------------------------------------------------------------------
\* Home actions
\* ------------------------------------------------------------------------

\* one of the three category buttons
SelectCategory(c) ==
  /\ ViewOf(Cur) = "/"
  /\ currentUser # None
  /\ c # activeCategory
  /\ Becomes(Settle(Cur, [Cur EXCEPT !.activeCategory = c]))
  /\ Bounded

\* Home.fetchDoors after its await
DoorsResponse(r, ok) ==
  /\ r \in net /\ r.kind = "doors"
  /\ ok => r.auth # None
  /\ LET s == Answered(Cur, r)
     IN Becomes(IF ~r.live THEN s
                ELSE IF ok
                THEN [s EXCEPT !.doors = GetDoorsResponse(r.arg), !.homeLoading = FALSE]
                ELSE [s EXCEPT !.homeFailed = TRUE, !.homeLoading = FALSE])
  /\ Bounded

\* ------------------------------------------------------------------------
\* Register actions
\* ------------------------------------------------------------------------

\* Register and AddDoor requests that may be in flight at once
MaxFormInFlight == 2

FormsBounded == Cardinality(rnet') <= MaxFormInFlight /\ Cardinality(anet') <= MaxFormInFlight

\* the submit event of the registration form; the button is disabled while
\* loading
RegisterSubmit(form) ==
  /\ ViewOf(Cur) = "/register"
  /\ ~regLoading
  /\ Becomes(RegisterHandleSubmit(Cur, form))
  /\ FormsBounded

\* Register.handleSubmit after its await of register(): on success login()
\* runs up to its await, on failure the catch and finally blocks
RegisterResponse(r, ok) ==
  /\ r \in rnet /\ r.kind = "register"
  /\ LET s == [Cur EXCEPT !.rnet = @ \ {r}]
     IN Becomes(IF ok
                THEN [registerSucceeded(s, r.body) EXCEPT
                        !.rnet = @ \cup {[kind |-> "token",
                                          body |-> TokenBody(r.body.email, r.body.password),
                                          live |-> r.live]}]
                ELSE IF r.live
                THEN [s EXCEPT !.regError = "Registration failed",
                               !.regLoading = FALSE]
                ELSE s)
  /\ FormsBounded

\* Register.handleSubmit after its await of login(): on success the token
\* is stored and navigate("/") runs, on failure the catch block; then finally
RegisterLoginResponse(r, ok) ==
  /\ r \in rnet /\ r.kind = "token"
  /\ LET s == [Cur EXCEPT !.rnet = @ \ {r}]
     IN IF ok
        THEN LET stored == loginSucceeded(s, TokenFor(r.body.username))
                 fin == IF r.live THEN [stored EXCEPT !.regLoading = FALSE]
                        ELSE stored
             IN Becomes(Settle(Cur, [fin EXCEPT !.route = "/"]))
        ELSE Becomes(IF r.live
                     THEN [s EXCEPT !.regError = "Login failed",
                                    !.regLoading = FALSE]
                     ELSE s)
  /\ Bounded
  /\ FormsBounded

\* ------------------------------------------------------------------------
\* AddDoor actions
\* ------------------------------------------------------------------------

\* the success callback of AddDoor's getCurrentPosition
AddGeoPosition ==
  /\ addGeo = "pending"
  /\ Becomes([Cur EXCEPT !.addGeo = "done", !.addLocation = Position,
                         !.loadingLocation = FALSE])

\* the error callback of AddDoor's getCurrentPosition
AddGeoError ==
  /\ addGeo = "pending"
  /\ Becomes([Cur EXCEPT !.addGeo = "done", !.loadingLocation = FALSE,
                !.addError = "Failed to get your location. Please allow location access."])

\* handleImageChange with a file chosen
AddImageChange ==
  /\ ViewOf(Cur) = "/add-door"
  /\ addImage = None
  /\ Becomes([Cur EXCEPT !.addImage = "file"])

\* onChange of the category radio buttons
AddCategoryChange(c) ==
  /\ ViewOf(Cur) = "/add-door"
  /\ addCategory # c
  /\ Becomes([Cur EXCEPT !.addCategory = c])

\* the submit event of the AddDoor form reaches handleSubmit; the handler
\* makes its own checks and does not rely on the form's required and
\* disabled attributes
AddDoorSubmit ==
  /\ ViewOf(Cur) = "/add-door"
  /\ Becomes(AddDoorHandleSubmit(Cur))
  /\ FormsBounded

\* AddDoor.handleSubmit after its await of api.createDoor
CreateDoorResponse(r, ok) ==
  /\ r \in anet
  /\ ok => r.auth # None
  /\ LET s == [Cur EXCEPT !.anet = @ \ {r}]
     IN IF ok
        THEN Becomes(Settle(Cur, [s EXCEPT !.route = "/",
                                           !.addSubmitting = IF r.live THEN FALSE ELSE @]))
        ELSE Becomes(IF r.live
                     THEN [s EXCEPT !.addError = "Failed to add door. Please try again.",
                                    !.addSubmitting = FALSE]
                     ELSE s)
  /\ Bounded
  /\ FormsBounded

\* The session specification: AuthProvider, the router, Login, the token
\* effect of NavBar and the fetch-on-mount of Home.
Next ==
  \/ \E url \in Routes : AppStart(url)
  \/ \E r \in net, ok \in BOOLEAN : MeResponse(r, ok)
  \/ \E u \in Users : LoginSubmit(u)
  \/ \E r \in net, ok \in BOOLEAN : LoginResponse(r, ok)
  \/ Logout
  \/ \E url \in Routes : Navigate(url)
  \/ \E tm \in timers : TimerTick(tm)
  \/ \E r \in net, ok \in BOOLEAN : NotificationsResponse(r, ok)
  \/ \E r \in net, ok \in BOOLEAN : DoorsResponse(r, ok)

Spec == Init /\ [][Next]_vars

\* ------------------------------------------------------------------------
\* Properties of the session specification
\* ------------------------------------------------------------------------

Pending(kind) == {r \in net : r.kind = kind}

\* C1: a successful login stores the returned access token under the
\* localStorage key and makes it the in-memory token; an application start
\* takes the stored token as its token and, when one is stored, requests
\* /users/me with it; when that request succeeds currentUser is the returned
\* user, the session is authenticated and no login was needed.
LoginPersistsAndRestores ==
  [][ /\ \A r \in net :
           (r.kind = "token" /\ LoginResponse(r, TRUE))
             => (localStorage' = TokenFor(r.arg) /\ token' = TokenFor(r.arg))
      /\ \A url \in Routes :
           AppStart(url)
             => /\ token' = localStorage
                /\ localStorage' = localStorage
                /\ localStorage # None
                     => /\ loading' /\ restore' = "pending"
                        /\ Request("me", localStorage, localStorage, None) \in net'
      /\ (restore = "pending" /\ restore' = "ok")
           => /\ currentUser' = UserOf(localStorage)
              /\ token' = localStorage /\ localStorage' = localStorage
              /\ ~loading'
              /\ Pending("token") = {} ]_vars

\* a session restored from the stored token is on screen
RestoredSession ==
  /\ restore = "ok" /\ ~loading
  /\ currentUser # None /\ currentUser = UserOf(localStorage)
  /\ token = localStorage
  /\ Pending("token") = {}

LoggedOut(tok, user, stored) == tok = None /\ user = None /\ stored = None

\* C2: right after logout (the Sign out button, or the logout of a failed
\* /users/me) the stored token is absent and token and currentUser are null;
\* nothing but a successful login stores a token again, and an application
\* start that finds no stored token requests no /users/me and renders
\* unauthenticated.
LogoutClearsSession ==
  [][ /\ Logout => LoggedOut(token', currentUser', localStorage')
      /\ \A r \in net :
           (r.kind = "me" /\ MeResponse(r, FALSE))
             => LoggedOut(token', currentUser', localStorage')
      /\ (localStorage = None /\ localStorage' # None)
           => \E r \in net : r.kind = "token" /\ LoginResponse(r, TRUE)
      /\ \A url \in Routes :
           (localStorage = None /\ AppStart(url))
             => /\ LoggedOut(token', currentUser', localStorage')
                /\ ~loading'
                /\ {r \in net' : r.kind = "me"} = {} ]_vars

\* a page that had a session (its NavBar still holds the fetched
\* notifications) and was logged out
AfterLogout ==
  /\ notifications # << >>
  /\ LoggedOut(token, currentUser, localStorage)
  /\ ~loading

\* C3: when /users/me fails during the session restore, the stored token is
\* removed, token and currentUser become null, loading becomes false and the
\* page renders unauthenticated (no protected view, no polling timer).
RestoreFailureLogsOut ==
  [][ (restore = "pending" /\ restore' = "failed")
        => /\ LoggedOut(token', currentUser', localStorage')
           /\ ~loading'
           /\ route' \notin ProtectedRoutes
           /\ timers' = {} ]_vars

RestoreFailed ==
  /\ restore = "failed" /\ ~loading
  /\ LoggedOut(token, currentUser, localStorage)

\* C4: a protected view is on screen only while currentUser is non-null;
\* visiting a protected route without a session, and losing the session on
\* a protected route, both end on /login.
ProtectedViewsNeedSession ==
  /\ [](ViewOf(Cur) \in ProtectedRoutes => currentUser # None)
  /\ [][ /\ \A url \in ProtectedRoutes :
               ((Navigate(url) \/ AppStart(url)) /\ ~loading' /\ currentUser' = None)
                 => route' = "/login"
         /\ (route \in ProtectedRoutes
              /\ (Logout \/ \E r \in net : r.kind = "me" /\ MeResponse(r, FALSE)))
                => route' = "/login" ]_vars

\* a protected view is on screen, for a user whose session was restored
ProtectedViewShown ==
  /\ ViewOf(Cur) = "/map"
  /\ currentUser # None
  /\ restore = "ok"

\* C7: every request to /users/me, /doors, /notifications and
\* /notifications/:id/read in flight was issued with an Authorization header
\* whose token is non-null and was the session token at that moment.
RequestsCarrySessionToken ==
  \A r \in net :
    r.kind \in {"me", "doors", "notifications", "markRead"}
      => (r.auth # None /\ r.auth = r.sess)

\* C8: at most one polling timer is active, and only while NavBar is
\* mounted with a non-null token, which is the token the timer polls with.
OnePollingTimer ==
  /\ Cardinality(timers) <= 1
  /\ timers # {} => (~loading /\ token # None /\ timers = {[token |-> token]})

\* the token changed under a mounted NavBar (it still shows the previous
\* user's notifications) and the timer is the one of the new token
TimerReplaced ==
  /\ timers = {[token |-> token]}
  /\ notifications # << >>
  /\ notifications[1].user # UserOf(token)

\* a toast or an inline error message is on screen
MessageShown ==
  \/ homeFailed
  \/ loginError # ""
  \/ regError # ""
  \/ addError # ""

\* C11: when a request of a mounted view or of the session fails (/users/me,
\* /notifications, /doors, /token) on a page showing no message, the handler
\* that made it leaves a toast or an inline error message on screen.
FailuresAreSurfaced ==
  [][ \A r \in net :
        (/\ r.live
         /\ ~MessageShown
         /\ \/ MeResponse(r, FALSE)
            \/ NotificationsResponse(r, FALSE)
            \/ DoorsResponse(r, FALSE)
            \/ LoginResponse(r, FALSE))
          => MessageShown' ]_vars

\* C21: in every reachable state a non-null currentUser (isAuthenticated
\* true) comes with a non-null session token, also while /users/me requests
\* of earlier tokens are in flight across repeated logins.
UserImpliesToken == isAuthenticated(Cur) => token # None

\* C22: a response, success or failure, to a /users/me request issued for a
\* token that is no longer the session token installs no user and logs no
\* session out: currentUser, token and the stored token stay as they are.
StaleMeResponseIgnored ==
  [][ \A r \in net, ok \in BOOLEAN :
        (r.kind = "me" /\ r.auth # token /\ MeResponse(r, ok))
          => UNCHANGED << currentUser, token, localStorage >> ]_vars

\* C23: the in-memory token equals the token stored in localStorage (both
\* absent or both the same value) in every state between two tasks, so after
\* every AuthProvider operation: start, login success or failure, logout and
\* the logout of a failed session restore.
TokenMatchesStorage == token = localStorage

\* a session restore failed (its logout removed both tokens) and a later
\* login stored and installed a token again
LoggedInAfterFailedRestore ==
  /\ restore = "failed"
  /\ token # None /\ token = localStorage
  /\ currentUser = UserOf(token)

\* C24: a rejected login leaves token, stored token and currentUser as they
\* were and does not navigate; the Error thrown carries the server's detail,
\* or 'Login failed' when there is none, and a Login view still on screen
\* shows that message with its loading flag off.
FailedLoginChangesNothing ==
  [][ \A r \in net, detail \in Details :
        LoginRejected(r, detail)
          => /\ UNCHANGED << token, localStorage, currentUser, route >>
             /\ r.live
                  => /\ ViewOf(Cur) = "/login"
                     /\ loginError' = IF detail = "Incorrect email or password"
                                      THEN "Incorrect email or password"
                                      ELSE "Login failed"
                     /\ ~loginLoading' ]_vars

\* a signed-in user opened /login and the login was rejected with a detail
RejectedWhileSignedIn ==
  /\ ViewOf(Cur) = "/login"
  /\ loginError = "Incorrect email or password"
  /\ ~loginLoading
  /\ currentUser # None /\ token = TokenFor(currentUser)
  /\ localStorage = token

\* C28: the notifications NavBar displays (the badge count and the list
\* under the bell, both rendered for a signed-in user) are notifications of
\* the session's current user, also after a logout followed by a login as
\* another user.
NotificationsOfCurrentUser ==
  (~loading /\ currentUser # None /\ token # None /\ currentUser = UserOf(token))
    => \A i \in 1..Len(notifications) : notifications[i].user = currentUser

\* ------------------------------------------------------------------------
\* The sign-up specification: the session specification with Register
\* ------------------------------------------------------------------------

InitRegister ==
  /\ Is(Started(None, "/register", {}))
  /\ DetailAbsent
  /\ MapAbsent
  /\ ApiAbsent

NextRegister ==
  \/ \E form \in RegisterForms : RegisterSubmit(form)
  \/ \E r \in rnet, ok \in BOOLEAN : RegisterResponse(r, ok)
  \/ \E r \in rnet, ok \in BOOLEAN : RegisterLoginResponse(r, ok)
  \/ \E url \in {"/", "/register"} : Navigate(url)
  \/ \E r \in net, ok \in BOOLEAN : MeResponse(r, ok)
  \/ Logout
  \/ \E tm \in timers : TimerTick(tm)
  \/ \E r \in net, ok \in BOOLEAN : NotificationsResponse(r, ok)
  \/ \E r \in net, ok \in BOOLEAN : DoorsResponse(r, ok)

SpecRegister == InitRegister /\ [][NextRegister]_vars

\* C12: the token, in memory and under the localStorage key, changes only in
\* a successful login (from Login or from Register) and in logout (the Sign
\* out button, or the logout of a failed /users/me); register, a failed
\* login, polling, navigation and every response leave both as they are.
TokenWrittenByLoginAndLogout ==
  [][ (token' # token \/ localStorage' # localStorage)
        => \/ \E r \in net : r.kind = "token" /\ LoginResponse(r, TRUE)
           \/ \E r \in rnet : r.kind = "token" /\ RegisterLoginResponse(r, TRUE)
           \/ Logout
           \/ \E r \in net : r.kind = "me" /\ MeResponse(r, FALSE) ]_vars

\* C19: a submit of the registration form whose password equals its
\* confirmation issues POST /register with the name, email and password of
\* the form; a submit whose password differs issues no request, shows
\* 'Passwords do not match', leaves loading false and changes nothing of the
\* session; nothing else issues POST /register.
RegisterChecksPasswords ==
  [][ /\ \A form \in RegisterForms :
           RegisterSubmit(form)
             => IF form.password = form.confirmPassword
                THEN /\ rnet' = rnet \cup
                                  {[kind |-> "register", live |-> TRUE,
                                    body |-> [name |-> form.name, email |-> form.email,
                                              password |-> form.password]]}
                     /\ regLoading' /\ regError' = ""
                ELSE /\ rnet' = rnet
                     /\ regError' = "Passwords do not match"
                     /\ ~regLoading'
                     /\ UNCHANGED << token, localStorage, currentUser, route, net >>
      /\ (\E q \in rnet' : q.kind = "register" /\ \A p \in rnet : p.body # q.body)
           => \E form \in RegisterForms :
                RegisterSubmit(form) /\ form.password = form.confirmPassword ]_vars

\* a submit with differing passwords was refused
PasswordMismatchShown ==
  /\ ViewOf(Cur) = "/register"
  /\ regError = "Passwords do not match"
  /\ ~regLoading
  /\ rnet = {}
  /\ token = None

\* a registration succeeded and its login is awaited: nothing is stored yet
RegisteredNotYetLoggedIn ==
  /\ \E r \in rnet : r.kind = "token" /\ r.live
  /\ regLoading
  /\ token = None /\ localStorage = None

\* ------------------------------------------------------------------------
\* The Home specification: the category filter of an authenticated Home
\* ------------------------------------------------------------------------

\* the page opened at url with the token of user u stored, after /users/me
\* and the first /notifications request succeeded
SignedIn(u, url) ==
  LET s0 == Started(TokenFor(u), url, {})
      me == Request("me", TokenFor(u), TokenFor(u), None)
      s1 == Settle(s0, [Answered(s0, me) EXCEPT !.currentUser = u,
                                                !.loading = FALSE,
                                                !.restore = "ok"])
      nt == Request("notifications", TokenFor(u), TokenFor(u), None)
  IN [Answered(s1, nt) EXCEPT
        !.notifications = GetNotificationsResponse(TokenFor(u), {})]

InitHome ==
  /\ \E u \in Users : Is(SignedIn(u, "/"))
  /\ DetailAbsent
  /\ MapAbsent
  /\ ApiAbsent

NextHome ==
  \/ \E c \in Categories \cup {None} : SelectCategory(c)
  \/ \E r \in net, ok \in BOOLEAN : DoorsResponse(r, ok)
  \/ \E url \in {"/", "/map"} : Navigate(url)

SpecHome == InitHome /\ [][NextHome]_vars

\* C5: on an authenticated Home whose doors requests all succeeded, once
\* none of them is in flight the displayed list is the backend's answer for
\* the active category.
HomeListMatchesFilter ==
  (ViewOf(Cur) = "/" /\ currentUser # None /\ ~homeFailed
   /\ {r \in Pending("doors") : r.live} = {})
    => doors = GetDoorsResponse(activeCategory)

\* C26: on an authenticated Home the loading flag is true whenever a doors
\* request issued by that Home is in flight, so that the spinner stands in
\* for the list of an earlier request while a newer one is pending.
HomeLoadingWhilePending ==
  (ViewOf(Cur) = "/" /\ currentUser # None /\ \E r \in Pending("doors") : r.live)
    => homeLoading

\* ------------------------------------------------------------------------
\* The AddDoor specification: a signed-in user on /add-door
\* ------------------------------------------------------------------------

\* /add-door opened by a signed-in user, in a browser with or without
\* navigator.geolocation: AddDoor has just mounted
InitAddDoor ==
  /\ \E u \in Users, g \in {"idle", "unsupported"} :
       Is(AddDoorEffect(AddDoorInitial([SignedIn(u, "/add-door") EXCEPT !.addGeo = g])))
  /\ DetailAbsent
  /\ MapAbsent
  /\ ApiAbsent

NextAddDoor ==
  \/ AddGeoPosition
  \/ AddGeoError
  \/ AddImageChange
  \/ \E c \in Categories : AddCategoryChange(c)
  \/ AddDoorSubmit
  \/ \E r \in anet, ok \in BOOLEAN : CreateDoorResponse(r, ok)
  \/ \E url \in {"/", "/add-door"} : Navigate(url)
  \/ \E r \in net, ok \in BOOLEAN : DoorsResponse(r, ok)

SpecAddDoor == InitAddDoor /\ [][NextAddDoor]_vars

\* the inline error of the first failing check of AddDoor.handleSubmit
FirstFailingCheck ==
  IF addImage = None THEN "Please select an image"
  ELSE IF addCategory = "" THEN "Please select a category"
  ELSE "Location is required. Please allow location access."

\* C16: a submit with an image, a category and a location present issues
\* one create-door request, whose body has every form field but location
\* and the latitude and longitude of the location; a submit with one of
\* them missing issues no request, leaves submitting false and shows the
\* error of the first failing check in the order image, category, location;
\* nothing else issues a create-door request.
AddDoorValidates ==
  [][ /\ AddDoorSubmit
           => IF addImage # None /\ addCategory # "" /\ addLocation # NoLocation
              THEN /\ addSubmitting' /\ addError' = ""
                   /\ \E q \in anet' :
                        /\ anet' = anet \cup {q}
                        /\ q.method = "POST" /\ q.url = << "/doors" >>
                        /\ q.auth = token
                        /\ DOMAIN q.body = {"title", "description", "place_name",
                                            "history", "category", "image",
                                            "latitude", "longitude"}
                        /\ q.body.category = addCategory
                        /\ q.body.image = addImage
                        /\ q.body.latitude = addLocation.latitude
                        /\ q.body.longitude = addLocation.longitude
              ELSE /\ anet' = anet
                   /\ ~addSubmitting'
                   /\ addError' = FirstFailingCheck
      /\ (\E q \in anet' : \A p \in anet : p.body # q.body \/ p.auth # q.auth)
           => (AddDoorSubmit /\ addImage # None /\ addCategory # ""
               /\ addLocation # NoLocation) ]_vars

\* a submit without a category was refused, and after the category was
\* chosen the create-door request is in flight
CreateDoorSent ==
  /\ addSubmitting /\ addError = ""
  /\ \E r \in anet : r.live /\ r.body.category = addCategory /\ r.body.image = "file"

\* ------------------------------------------------------------------------
\* The NavBar specification: the notification list of a signed-in user
\* ------------------------------------------------------------------------

InitNavBar ==
  /\ \E u \in Users : Is(SignedIn(u, "/login"))
  /\ DetailAbsent
  /\ MapAbsent
  /\ ApiAbsent

NextNavBar ==
  \/ \E tm \in timers : TimerTick(tm)
  \/ \E r \in net, ok \in BOOLEAN : NotificationsResponse(r, ok)
  \/ ToggleNotifications
  \/ \E i \in 1..Len(notifications) : NotificationClick(i)
  \/ \E r \in net, ok \in BOOLEAN : MarkReadResponse(r, ok)
  \/ Logout

SpecNavBar == InitNavBar /\ [][NextNavBar]_vars

\* C13: the backend's read flags change only in a successful
\* POST /notifications/:id/read, and the notification list on screen (and so
\* every read flag shown) changes only when a notifications fetch succeeds,
\* to the list that fetch returned.
ReadFlagOnlyFromServer ==
  [][ /\ srvRead' # srvRead
           => \E r \in net : /\ r.kind = "markRead"
                              /\ MarkReadResponse(r, TRUE)
                              /\ srvRead' = srvRead \cup {r.arg}
      /\ notifications' # notifications
           => \E r \in net : /\ r.kind = "notifications"
                              /\ NotificationsResponse(r, TRUE)
                              /\ notifications' = GetNotificationsResponse(r.auth, srvRead) ]_vars

\* the notifications of the user of token t that the backend holds unread
UnreadOnServer(t, read) ==
  {i \in 1..Len(NotifDB) : NotifDB[i].user = UserOf(t) /\ NotifDB[i].id \notin read}

\* a successful fetch stores a list whose unread count is the number of
\* notifications the backend holds unread for the user; a failed fetch
\* leaves the list and the count as they are; nothing else changes them
CountFollowsFetch ==
  [][ /\ \A r \in net :
           (r.kind = "notifications" /\ NotificationsResponse(r, TRUE))
             => unreadCount(notifications')
                  = Cardinality(UnreadOnServer(r.auth, srvRead))
      /\ \A r \in net :
           (r.kind = "notifications" /\ NotificationsResponse(r, FALSE))
             => /\ notifications' = notifications
                /\ unreadCount(notifications') = unreadCount(notifications)
      /\ unreadCount(notifications') # unreadCount(notifications)
           => \E r \in net : r.kind = "notifications"
                              /\ NotificationsResponse(r, TRUE) ]_vars

\* C20 as stated: the count follows the stored fetch result, and the badge
\* is shown exactly when the count is greater than zero.
BadgeShownIffUnread ==
  /\ CountFollowsFetch
  /\ [](Badge(Cur) > 0 <=> unreadCount(notifications) > 0)

\* C20 amended: the count follows the stored fetch result, and while a user
\* is signed in the badge is shown, with the count, exactly when the count
\* is greater than zero; signed out, no badge is shown.
BadgeShownIffUnreadAndSignedIn ==
  /\ CountFollowsFetch
  /\ [](/\ Badge(Cur) \in {0, unreadCount(notifications)}
         /\ Badge(Cur) > 0 <=> (currentUser # None /\ unreadCount(notifications) > 0))

\* one of the user's two notifications was read: the badge shows 1
BadgeCountsOne ==
  /\ Badge(Cur) = 1
  /\ Len(notifications) = 2
  /\ Cardinality(srvRead) = 1

\* a notification is shown as read: it was clicked, marked read by the
\* backend and fetched again
ShownAsRead ==
  /\ notifications # << >>
  /\ notifications[1].is_read
  /\ notifications[1].id \in srvRead

\* ------------------------------------------------------------------------
\* The DoorDetail specification: one signed-in user on /doors/:id
\* ------------------------------------------------------------------------

\* A DoorDetail request in flight: id and seen are the id and the comments
\* of the render whose handler issued it, live whether that DoorDetail
\* instance is still mounted.
DetailRequest(kind, id, text, seen) ==
  [kind |-> kind, auth |-> token, id |-> id, text |-> text, seen |-> seen,
   live |-> TRUE]

FetchDoorAndComments_inParallel(id, pending) ==
  /\ detailLoading' = TRUE
  /\ dnet' = pending \cup {DetailRequest("getDoor", id, "", << >>),
                           DetailRequest("getComments", id, "", << >>)}

\* the effect of DoorDetail on [id, token, navigate]: fetchDoorAndComments
\* up to its first await
FetchDoorAndComments(id, pending) ==
  /\ detailLoading' = TRUE
  /\ dnet' = pending \cup {DetailRequest("getDoor", id, "", << >>)}

\* the requests of an unmounted instance: their continuations still run, but
\* the state updates they make (and the comments they captured) are dropped
OrphanAll(rs) == {[r EXCEPT !.live = FALSE, !.seen = << >>] : r \in rs}

\* the router renders DoorDetail for /doors/id: a mount, or a new id for the
\* mounted instance (a notification click, a door link, back and forward)
DetailOpen(id) ==
  /\ id # detailId \/ ~detailMounted
  /\ detailMounted' = TRUE
  /\ detailId' = id
  /\ IF detailMounted
     THEN /\ FetchDoorAndComments(id, dnet)
          /\ UNCHANGED << door, comments, newComment, submitting >>
     ELSE /\ FetchDoorAndComments(id, dnet)
          /\ door' = None
          /\ comments' = << >>
          /\ newComment' = ""
          /\ submitting' = FALSE
  /\ Cardinality(dnet') <= MaxDetailInFlight
  /\ UNCHANGED << srvComments, sessionVars, mapVars, apiVars >>

\* navigation to another route unmounts DoorDetail
DetailUnmount(pending) ==
  /\ detailMounted' = FALSE
  /\ detailId' = None
  /\ dnet' = OrphanAll(pending)

DetailLeave ==
  /\ detailMounted
  /\ DetailUnmount(dnet)
  /\ UNCHANGED << door, comments, newComment, detailLoading, submitting,
                  srvComments, sessionVars, mapVars, apiVars >>

\* fetchDoorAndComments after api.getDoor: on success the door is set and
\* the comments are requested; on failure the catch block navigates to "/"
GetDoorResponse(r, ok) ==
  /\ r \in dnet /\ r.kind = "getDoor"
  /\ IF ok
     THEN /\ door' = IF r.live THEN r.id ELSE door
          /\ dnet' = (dnet \ {r}) \cup
                       {[r EXCEPT !.kind = "getComments"]}
          /\ UNCHANGED << detailMounted, detailId, detailLoading >>
     ELSE /\ DetailUnmount(dnet \ {r})
          /\ detailLoading' = IF r.live THEN FALSE ELSE detailLoading
          /\ door' = door
  /\ UNCHANGED << comments, newComment, submitting, srvComments, sessionVars, mapVars, apiVars >>

\* fetchDoorAndComments after api.getComments
GetCommentsResponse(r, ok) ==
  /\ r \in dnet /\ r.kind = "getComments"
  /\ IF ok
     THEN /\ comments' = IF r.live THEN srvComments[r.id] ELSE comments
          /\ dnet' = dnet \ {r}
          /\ UNCHANGED << detailMounted, detailId >>
     ELSE /\ DetailUnmount(dnet \ {r})
          /\ comments' = comments
  /\ detailLoading' = IF r.live THEN FALSE ELSE detailLoading
  /\ UNCHANGED << door, newComment, submitting, srvComments, sessionVars, mapVars, apiVars >>

\* the comment form is rendered
FormShown == detailMounted /\ ~detailLoading /\ door # None

\* onChange of the textarea
TypeComment(text) ==
  /\ FormShown
  /\ text # newComment
  /\ newComment' = text
  /\ UNCHANGED << detailMounted, detailId, door, comments, detailLoading,
                  submitting, dnet, srvComments, sessionVars, mapVars, apiVars >>

Trimmed(text) == IF text = Blank THEN "" ELSE text

\* handleSubmitComment up to its await; the Post button is disabled while
\* submitting and the textarea is required
SubmitComment ==
  /\ FormShown
  /\ ~submitting
  /\ newComment # ""
  /\ IF Trimmed(newComment) = ""
     THEN UNCHANGED << submitting, dnet >>
     ELSE /\ submitting' = TRUE
          /\ dnet' = dnet \cup
                       {DetailRequest("createComment", detailId, newComment, comments)}
  /\ Cardinality(dnet') <= MaxDetailInFlight
  /\ UNCHANGED << detailMounted, detailId, door, comments, newComment,
                  detailLoading, srvComments, sessionVars, mapVars, apiVars >>

\* the list handleSubmitComment installs: the comments of the render in
\* which the form was submitted, followed by the created comment
AppendCreated_toCurrent(seen, current, created) == current \o << created >>

AppendCreated(seen, current, created) == seen \o << created >>

\* handleSubmitComment after api.createComment
CreateCommentResponse(r, ok) ==
  /\ r \in dnet /\ r.kind = "createComment"
  /\ dnet' = dnet \ {r}
  /\ ok => Len(srvComments[r.id]) < MaxComments
  /\ LET createdComment == Comment(r.id, Len(srvComments[r.id]) + 1, r.text)
     IN IF ok
        THEN /\ srvComments' = [srvComments EXCEPT ![r.id] = @ \o << createdComment >>]
             /\ comments' = IF r.live
                             THEN AppendCreated(r.seen, comments, createdComment)
                             ELSE comments
             /\ newComment' = IF r.live THEN "" ELSE newComment
        ELSE UNCHANGED << srvComments, comments, newComment >>
  /\ submitting' = IF r.live THEN FALSE ELSE submitting
  /\ UNCHANGED << detailMounted, detailId, door, detailLoading, sessionVars, mapVars, apiVars >>

InitDetail ==
  /\ Is(SignedIn("u1", "/doors"))
  /\ \E id \in DoorIds :
       /\ detailMounted = TRUE
       /\ detailId = id
       /\ door = None
       /\ comments = << >>
       /\ newComment = ""
       /\ detailLoading = TRUE
       /\ submitting = FALSE
       /\ dnet = {[kind |-> "getDoor", auth |-> token, id |-> id, text |-> "",
                    seen |-> << >>, live |-> TRUE]}
       /\ srvComments = SeedComments
  /\ MapAbsent
  /\ ApiAbsent

NextDetail ==
  \/ \E id \in DoorIds : DetailOpen(id)
  \/ DetailLeave
  \/ \E r \in dnet, ok \in BOOLEAN : GetDoorResponse(r, ok)
  \/ \E r \in dnet, ok \in BOOLEAN : GetCommentsResponse(r, ok)
  \/ \E text \in Texts \cup {Blank} : TypeComment(text)
  \/ SubmitComment
  \/ \E r \in dnet, ok \in BOOLEAN : CreateCommentResponse(r, ok)

SpecDetail == InitDetail /\ [][NextDetail]_vars

\* ------------------------------------------------------------------------
\* The handler-sequence specification: the handlers that await more than
\* one request.  DoorDetail's is followed on the door page, those of
\* Register and of the notification list on the other pages.
\* ------------------------------------------------------------------------

InitSequence == InitDetail \/ InitRegister

NextSequence ==
  \/ /\ route = "/doors"
     /\ \/ \E id \in DoorIds : DetailOpen(id)
        \/ \E r \in dnet, ok \in BOOLEAN : GetDoorResponse(r, ok)
        \/ \E r \in dnet, ok \in BOOLEAN : GetCommentsResponse(r, ok)
  \/ /\ route # "/doors"
     /\ \/ \E form \in RegisterForms : RegisterSubmit(form)
        \/ \E r \in rnet, ok \in BOOLEAN : RegisterResponse(r, ok)
        \/ \E r \in rnet, ok \in BOOLEAN : RegisterLoginResponse(r, ok)
        \/ \E r \in net, ok \in BOOLEAN : MeResponse(r, ok)
        \/ \E r \in net, ok \in BOOLEAN : DoorsResponse(r, ok)
        \/ \E r \in net, ok \in BOOLEAN : NotificationsResponse(r, ok)
        \/ ToggleNotifications
        \/ \E i \in 1..Len(notifications) : NotificationClick(i)
        \/ \E r \in net, ok \in BOOLEAN : MarkReadResponse(r, ok)
        \/ Logout

SpecSequence == InitSequence /\ [][NextSequence]_vars

\* C15: a comments request is issued only in the step in which a door
\* request succeeded; Register's login request only in the step in which
\* its register request succeeded, and Register navigates in no step but the
\* one in which its login succeeded; a notification click refetches and
\* navigates in the step in which mark-as-read succeeded and in no other
\* (to the door page, or to /login when the user has signed out meanwhile).
HandlersAwaitInSequence ==
  [][ /\ \A q \in dnet' :
           (q.kind = "getComments"
            /\ ~\E p \in dnet : p.kind = "getComments" /\ p.id = q.id)
             => \E r \in dnet : /\ r.kind = "getDoor"
                                 /\ GetDoorResponse(r, TRUE)
                                 /\ q.id = r.id
      /\ \A q \in rnet' :
           (q.kind = "token"
            /\ ~\E p \in rnet : p.kind = "token" /\ p.body = q.body)
             => \E r \in rnet : /\ r.kind = "register"
                                 /\ RegisterResponse(r, TRUE)
                                 /\ q.body.username = r.body.email
      /\ \A r \in rnet, ok \in BOOLEAN :
           (r.kind = "register" /\ RegisterResponse(r, ok))
             => (route' = route /\ token' = token)
      /\ \A r \in rnet :
           (r.kind = "token" /\ RegisterLoginResponse(r, FALSE))
             => (route' = route /\ token' = token)
      /\ \A r \in rnet :
           (r.kind = "token" /\ RegisterLoginResponse(r, TRUE))
             => (route' = "/" /\ token' = TokenFor(r.body.username))
      /\ \A i \in 1..Len(notifications) :
           NotificationClick(i)
             => (route' = route /\ Pending("notifications")' \subseteq Pending("notifications"))
      /\ \A r \in net :
           (r.kind = "markRead" /\ MarkReadResponse(r, FALSE))
             => (route' = route /\ Pending("notifications")' \subseteq Pending("notifications"))
      /\ \A r \in net :
           (r.kind = "markRead" /\ MarkReadResponse(r, TRUE))
             => (/\ route' = IF currentUser # None THEN "/doors" ELSE "/login"
                 /\ \E q \in net' : q.kind = "notifications" /\ q.auth = r.auth) ]_vars

\* a user who registered and was logged in by Register clicked a
\* notification, the click has navigated to the door page, and DoorDetail
\* has requested the comments of the door it fetched
SequencesCompleted ==
  /\ route = "/doors"
  /\ restore = "idle"
  /\ currentUser # None
  /\ srvRead # {}
  /\ detailMounted
  /\ door = detailId
  /\ \E r \in dnet : r.kind = "getComments" /\ r.id = detailId /\ r.live

IsPrefix(a, b) == Len(a) <= Len(b) /\ SubSeq(b, 1, Len(a)) = a

\* C6: a successful submission leaves the visible comments in place and in
\* order and adds the created comment after them; a failed or blank
\* submission leaves the list as it is.
CommentsAppendOnly ==
  [][ /\ \A r \in dnet :
           (r.kind = "createComment" /\ r.live /\ CreateCommentResponse(r, TRUE))
             => (IsPrefix(comments, comments') /\ Len(comments') = Len(comments) + 1
                 /\ comments'[Len(comments')].text = r.text)
      /\ \A r \in dnet :
           (r.kind = "createComment" /\ CreateCommentResponse(r, FALSE))
             => comments' = comments
      /\ SubmitComment => comments' = comments ]_vars

\* C25: once no DoorDetail request is in flight, the door and the comments
\* on screen are those of the route's current door id: no response to a
\* request made for a previous id replaced them.
DetailShowsCurrentDoor ==
  (detailMounted /\ dnet = {})
    => /\ door = detailId
       /\ \A i \in 1..Len(comments) : comments[i].door_id = detailId

\* ------------------------------------------------------------------------
\* The MapView specification: one signed-in user on /map
\* ------------------------------------------------------------------------

\* the door lists GET /api/doors may answer with, as the backend's
\* collection grows: the prefixes of DoorsDB
DoorLists == {SubSeq(DoorsDB, 1, n) : n \in 0..Len(DoorsDB)}

Elements(seq) == {seq[i] : i \in 1..Len(seq)}

\* new mapboxgl.Map(...): the instance is told apart by the viewport it was
\* created for
NewMap(vp) == IF vp = "default" THEN "map@default" ELSE "map@position"

\* map.current.remove(): the map's DOM goes, and the markers added to it
MapRemoved(ms, m) == {k \in ms : k.map # m}

MarkerEffect_skipsSingleDoor(m, ds, ldg, ms) ==
  IF m = None \/ Len(ds) <= 1 \/ ldg THEN ms
  ELSE {[door |-> d.id, map |-> m] : d \in Elements(ds)}

\* the marker effect of MapView on [doors, loading, navigate]: the markers
\* in the document after it ran
MarkerEffect(m, ds, ldg, ms) ==
  IF m = None \/ Len(ds) = 0 \/ ldg THEN ms
  ELSE {[door |-> d.id, map |-> m] : d \in Elements(ds)}

\* MapView mounts: its four effects run in order; getCurrentPosition is
\* called when the browser has navigator.geolocation
MapMount ==
  /\ ~mapMounted
  /\ mapMounted' = TRUE
  /\ mapDoors' = << >>
  /\ viewport' = "default"
  /\ geo' = IF geo = "unsupported" THEN geo ELSE "pending"
  /\ mapLoading' = TRUE
  /\ mnet' = {r \in mnet : ~r.live} \cup {[auth |-> token, arg |-> None, live |-> TRUE]}
  /\ mapCurrent' = NewMap("default")
  /\ markers' = MarkerEffect(NewMap("default"), << >>, TRUE, markers)
  /\ UNCHANGED << sessionVars, detailVars, apiVars >>

\* the success callback of getCurrentPosition: setViewport, then the map
\* effect's cleanup and body run again; the marker effect does not
GeoPosition ==
  /\ geo = "pending"
  /\ geo' = "done"
  /\ IF mapMounted
     THEN /\ viewport' = "position"
          /\ mapCurrent' = NewMap("position")
          /\ markers' = MapRemoved(markers, mapCurrent)
     ELSE UNCHANGED << viewport, mapCurrent, markers >>
  /\ UNCHANGED << mapMounted, mapDoors, mapLoading, mnet, sessionVars, detailVars, apiVars >>

\* the error callback of getCurrentPosition
GeoError ==
  /\ geo = "pending"
  /\ geo' = "done"
  /\ UNCHANGED << mapMounted, mapDoors, mapLoading, viewport, mapCurrent,
                  markers, mnet, sessionVars, detailVars, apiVars >>

\* fetchDoors of MapView after its await
MapDoorsResponse(r, ok, data) ==
  /\ r \in mnet
  /\ ok => r.auth # None
  /\ mnet' = mnet \ {r}
  /\ IF r.live
     THEN /\ mapDoors' = IF ok THEN data ELSE mapDoors
          /\ mapLoading' = FALSE
          /\ markers' = MarkerEffect(mapCurrent, mapDoors', FALSE, markers)
     ELSE UNCHANGED << mapDoors, mapLoading, markers >>
  /\ UNCHANGED << mapMounted, viewport, mapCurrent, geo, sessionVars, detailVars, apiVars >>

\* navigation to another route unmounts MapView: the map effect's cleanup
MapUnmount ==
  /\ mapMounted
  /\ mapMounted' = FALSE
  /\ markers' = MapRemoved(markers, mapCurrent)
  /\ mapCurrent' = None
  /\ mnet' = {[r EXCEPT !.live = FALSE] : r \in mnet}
  /\ UNCHANGED << mapDoors, mapLoading, viewport, geo, sessionVars, detailVars, apiVars >>

\* /map opened by a signed-in user: MapView has just mounted
InitMap ==
  /\ \E u \in Users : Is(SignedIn(u, "/map"))
  /\ DetailAbsent
  /\ mapMounted = TRUE
  /\ mapDoors = << >>
  /\ mapLoading = TRUE
  /\ viewport = "default"
  /\ mapCurrent = NewMap("default")
  /\ markers = {}
  /\ geo \in {"pending", "unsupported"}
  /\ mnet = {[auth |-> token, arg |-> None, live |-> TRUE]}
  /\ ApiAbsent

NextMap ==
  \/ MapMount
  \/ GeoPosition
  \/ GeoError
  \/ \E r \in mnet, ok \in BOOLEAN, data \in DoorLists : MapDoorsResponse(r, ok, data)
  \/ MapUnmount

SpecMap == InitMap /\ [][NextMap]_vars

MarkersOf(m, ds) == {[door |-> d.id, map |-> m] : d \in Elements(ds)}

\* C9: when a doors response sets MapView's door list (loading becomes
\* false), the markers in the document are exactly one marker per door of
\* the new list on the current map, none when the new list is empty.
MarkersRecreatedOnChange ==
  [][ \A r \in mnet, data \in DoorLists :
        (r.live /\ MapDoorsResponse(r, TRUE, data))
          => (~mapLoading' /\ mapDoors' = data
              /\ markers' = MarkersOf(mapCurrent', data)) ]_vars

\* the markers of a loaded, non-empty door list are on the map
MarkersPlaced ==
  /\ mapMounted /\ ~mapLoading
  /\ Len(mapDoors) >= 2
  /\ markers = MarkersOf(mapCurrent, mapDoors)

\* C27: whenever MapView's map exists, loading is false and the door list
\* is non-empty, the current map carries exactly one marker per door,
\* whichever of the geolocation callback and the doors response came first.
MapCarriesMarkers ==
  (mapMounted /\ mapCurrent # None /\ ~mapLoading /\ Len(mapDoors) > 0)
    => {k \in markers : k.map = mapCurrent} = MarkersOf(mapCurrent, mapDoors)

\* ------------------------------------------------------------------------
\* The views specification: every view that has a loading or a submitting
\* flag.  DoorDetail is followed on the door page, MapView on the map page,
\* AuthProvider, Home, Login, Register and AddDoor on the other pages.
\* ------------------------------------------------------------------------

InitViews ==
  \/ InitDetail
  \/ InitMap
  \/ InitRegister

NextViews ==
  \/ /\ route = "/doors"
     /\ NextDetail
  \/ /\ route = "/map"
     /\ NextMap
  \/ /\ route \notin {"/doors", "/map"}
     /\ \/ AppStart("/")
        \/ \E r \in net, ok \in BOOLEAN : MeResponse(r, ok)
        \/ LoginSubmit("u1")
        \/ \E r \in net, ok \in BOOLEAN : LoginResponse(r, ok)
        \/ Logout
        \/ \E url \in {"/login", "/add-door"} : Navigate(url)
        \/ \E r \in net, ok \in BOOLEAN : NotificationsResponse(r, ok)
        \/ \E r \in net, ok \in BOOLEAN : DoorsResponse(r, ok)
        \/ \E form \in RegisterForms : form.email = "u1" /\ RegisterSubmit(form)
        \/ \E r \in rnet, ok \in BOOLEAN : RegisterResponse(r, ok)
        \/ \E r \in rnet, ok \in BOOLEAN : RegisterLoginResponse(r, ok)
        \/ AddGeoPosition
        \/ AddGeoError
        \/ AddImageChange
        \/ AddCategoryChange("A")
        \/ AddDoorSubmit
        \/ \E r \in anet, ok \in BOOLEAN : CreateDoorResponse(r, ok)

SpecViews == InitViews /\ [][NextViews]_vars

\* C17: a loading or submitting flag of a view on screen is true only while
\* a request started by that view's handler is still in flight; once they
\* have all completed, successfully or not, the flag is false.
LoadingFlagsClear ==
  /\ loading => Pending("me") # {}
  /\ (ViewOf(Cur) = "/" /\ currentUser # None /\ homeLoading)
       => \E r \in Pending("doors") : r.live
  /\ (ViewOf(Cur) = "/login" /\ loginLoading)
       => \E r \in Pending("token") : r.live
  /\ (ViewOf(Cur) = "/register" /\ regLoading)
       => \E r \in rnet : r.live
  /\ (ViewOf(Cur) = "/add-door" /\ addSubmitting)
       => \E r \in anet : r.live
  /\ (detailMounted /\ detailLoading)
       => \E r \in dnet : r.live /\ r.kind \in {"getDoor", "getComments"}
  /\ (detailMounted /\ submitting)
       => \E r \in dnet : r.live /\ r.kind = "createComment"
  /\ (mapMounted /\ mapLoading)
       => \E r \in mnet : r.live

\* a create-door request has failed: AddDoor shows its error and is no
\* longer submitting
SubmittingCleared ==
  /\ ViewOf(Cur) = "/add-door"
  /\ addError = "Failed to add door. Please try again."
  /\ ~addSubmitting
  /\ anet = {}

\* ------------------------------------------------------------------------
\* The api specification: one invocation of a data-access function
\* ------------------------------------------------------------------------

ApiFunctions ==
  {"getDoors", "getDoor", "createDoor", "getComments", "createComment",
   "getNotifications", "markNotificationAsRead"}

\* the doorData object AddDoor.handleSubmit passes to createDoor
DoorData(category) ==
  [title |-> "title", description |-> "description", place_name |-> "place",
   history |-> "history", category |-> category,
   location |-> [latitude |-> "lat", longitude |-> "lng"], image |-> "file"]

\* the arguments a function is invoked with, after the token
ApiArguments(fn) ==
  CASE fn = "getDoors" -> Categories \cup {None}
    [] fn = "getDoor" -> DoorIds
    [] fn = "createDoor" -> {DoorData(c) : c \in Categories}
    [] fn = "getComments" -> DoorIds
    [] fn = "createComment" -> {[text |-> x, door_id |-> d] : x \in Texts, d \in DoorIds}
    [] fn = "getNotifications" -> {None}
    [] fn = "markNotificationAsRead" -> {"n1", "n2", "n3"}

\* api.getHeaders
getHeaders(tok) == [Authorization |-> << "Bearer", tok >>]

getDoorsUrl_alwaysFiltered(category) == << "/doors", "category", category >>

\* the url of getDoors: the category is truthy for 'A' and 'B' only
getDoorsUrl(category) ==
  IF category \in Categories THEN << "/doors", "category", category >>
  ELSE << "/doors" >>

ApiRequest_updatesDoor(fn, tok, arg) ==
  CASE fn = "getDoors" ->
         [method |-> "GET",
          url |-> getDoorsUrl(arg),
          headers |-> getHeaders(tok), body |-> None]
    [] fn = "getDoor" ->
         [method |-> "GET", url |-> << "/doors", arg >>,
          headers |-> getHeaders(tok), body |-> None]
    [] fn = "createDoor" ->
         [method |-> "PUT", url |-> << "/doors", "d1" >>,
          headers |-> getHeaders(tok), body |-> DoorFormData(arg)]
    [] fn = "getComments" ->
         [method |-> "GET", url |-> << "/comments", arg >>,
          headers |-> getHeaders(tok), body |-> None]
    [] fn = "createComment" ->
         [method |-> "POST", url |-> << "/comments" >>,
          headers |-> getHeaders(tok), body |-> arg]
    [] fn = "getNotifications" ->
         [method |-> "GET", url |-> << "/notifications" >>,
          headers |-> getHeaders(tok), body |-> None]
    [] fn = "markNotificationAsRead" ->
         [method |-> "POST", url |-> << "/notifications", arg, "read" >>,
          headers |-> getHeaders(tok), body |-> << >>]

\* the one axios call in the body of each function
ApiRequest(fn, tok, arg) ==
  CASE fn = "getDoors" ->
         [method |-> "GET",
          url |-> getDoorsUrl(arg),
          headers |-> getHeaders(tok), body |-> None]
    [] fn = "getDoor" ->
         [method |-> "GET", url |-> << "/doors", arg >>,
          headers |-> getHeaders(tok), body |-> None]
    [] fn = "createDoor" ->
         [method |-> "POST", url |-> << "/doors" >>,
          headers |-> getHeaders(tok), body |-> DoorFormData(arg)]
    [] fn = "getComments" ->
         [method |-> "GET", url |-> << "/comments", arg >>,
          headers |-> getHeaders(tok), body |-> None]
    [] fn = "createComment" ->
         [method |-> "POST", url |-> << "/comments" >>,
          headers |-> getHeaders(tok), body |-> arg]
    [] fn = "getNotifications" ->
         [method |-> "GET", url |-> << "/notifications" >>,
          headers |-> getHeaders(tok), body |-> None]
    [] fn = "markNotificationAsRead" ->
         [method |-> "POST", url |-> << "/notifications", arg, "read" >>,
          headers |-> getHeaders(tok), body |-> << >>]

Undefined == "undefined"

\* the value of the try block: response.data, except in
\* markNotificationAsRead, whose body has no return statement
ApiReturn(fn, data) ==
  IF fn = "markNotificationAsRead" THEN Undefined ELSE data

ApiCatch_retries(fn, tok, arg, sent, error) ==
  [pc |-> "awaiting", requests |-> sent \o << ApiRequest(fn, tok, arg) >>,
   result |-> Nothing]

\* the catch block: console.error, then throw error
ApiCatch(fn, tok, arg, sent, error) ==
  [pc |-> "thrown", requests |-> sent, result |-> [kind |-> "threw", value |-> error]]

\* requests one invocation may issue before the model stops following it
MaxAttempts == 3

ResponseData == {"data1", "data2"}

ResponseErrors == {"error401", "networkError"}

\* a caller invokes api.fn(token, arg): the function runs up to its await
ApiInvoke(fn, arg) ==
  /\ apiPc = "idle"
  /\ apiPc' = "awaiting"
  /\ apiCall' = [fn |-> fn, token |-> token, arg |-> arg]
  /\ apiRequests' = << ApiRequest(fn, token, arg) >>
  /\ apiResponse' = Nothing
  /\ apiResult' = Nothing
  /\ UNCHANGED << sessionVars, detailVars, mapVars >>

\* the request is answered with a 2xx response
ApiResolve(data) ==
  /\ apiPc = "awaiting"
  /\ apiPc' = "returned"
  /\ apiResponse' = [kind |-> "data", value |-> data]
  /\ apiResult' = [kind |-> "returned", value |-> ApiReturn(apiCall.fn, data)]
  /\ UNCHANGED << apiCall, apiRequests, sessionVars, detailVars, mapVars >>

\* the request fails
ApiReject(error) ==
  /\ apiPc = "awaiting"
  /\ Len(apiRequests) < MaxAttempts
  /\ LET c == ApiCatch(apiCall.fn, apiCall.token, apiCall.arg, apiRequests, error)
     IN /\ apiPc' = c.pc
        /\ apiRequests' = c.requests
        /\ apiResult' = c.result
  /\ apiResponse' = [kind |-> "error", value |-> error]
  /\ UNCHANGED << apiCall, sessionVars, detailVars, mapVars >>

\* the caller has taken the result; nothing of the invocation remains
ApiSettled ==
  /\ apiPc \in {"returned", "thrown"}
  /\ apiPc' = "idle"
  /\ apiCall' = NoCall
  /\ apiRequests' = << >>
  /\ apiResponse' = Nothing
  /\ apiResult' = Nothing
  /\ UNCHANGED << sessionVars, detailVars, mapVars >>

InitApi ==
  /\ \E u \in Users : Is(SignedIn(u, "/"))
  /\ DetailAbsent
  /\ MapAbsent
  /\ ApiAbsent

NextApi ==
  \/ \E fn \in ApiFunctions : \E arg \in ApiArguments(fn) : ApiInvoke(fn, arg)
  \/ \E data \in ResponseData : ApiResolve(data)
  \/ \E error \in ResponseErrors : ApiReject(error)
  \/ ApiSettled
  \/ \E r \in net, ok \in BOOLEAN : DoorsResponse(r, ok)

SpecApi == InitApi /\ [][NextApi]_vars

\* an invocation issued exactly one request, the one of its function, with
\* the caller's token, and a failure was thrown to the caller
OneRequestAndThrow ==
  /\ apiPc # "idle"
       => apiRequests = << ApiRequest(apiCall.fn, apiCall.token, apiCall.arg) >>
  /\ apiPc = "idle" => (apiCall = NoCall /\ apiRequests = << >>)
  /\ apiPc \in {"idle", "awaiting"} => (apiResponse = Nothing /\ apiResult = Nothing)
  /\ apiPc = "thrown"
       => (apiResponse.kind = "error"
           /\ apiResult = [kind |-> "threw", value |-> apiResponse.value])
  /\ apiPc = "returned" => (apiResponse.kind = "data" /\ apiResult.kind = "returned")

\* C10 as stated: one request per invocation and no state kept, a failure
\* is thrown, and on success every function returns the response data.
ApiReturnsResponseData ==
  /\ OneRequestAndThrow
  /\ apiPc = "returned" => apiResult.value = apiResponse.value

\* C10 amended: one request per invocation and no state kept, a failure is
\* thrown, and on success the response data is returned by every function
\* except markNotificationAsRead, which returns undefined.
ApiOneRoundTrip ==
  /\ OneRequestAndThrow
  /\ apiPc = "returned"
       => apiResult.value = IF apiCall.fn = "markNotificationAsRead"
                            THEN Undefined ELSE apiResponse.value

\* a request for the door collection: the list, one door, or a creation
ReadsOrCreatesDoor(q) ==
  \/ q.method = "GET" /\ q.url = << "/doors" >>
  \/ q.method = "GET" /\ Len(q.url) = 3 /\ q.url[2] = "category"
                      /\ q.url[3] \in Categories
  \/ q.method = "GET" /\ Len(q.url) = 2 /\ q.url[2] \in DoorIds
  \/ q.method = "POST" /\ q.url = << "/doors" >>

\* C14: every request an api function sends to /doors is the list, a
\* get-by-id or a creation (never an update or a deletion), and the door
\* list a view holds changes only by being replaced with the list a
\* successful doors response returned.
DoorsNeverMutated ==
  /\ [](\A i \in 1..Len(apiRequests) :
          apiRequests[i].url[1] = "/doors" => ReadsOrCreatesDoor(apiRequests[i]))
  /\ [][ doors' # doors
           => \E r \in net : /\ r.kind = "doors" /\ r.live
                              /\ DoorsResponse(r, TRUE)
                              /\ doors' = GetDoorsResponse(r.arg) ]_vars

\* createDoor has sent its request while Home holds a fetched door list
DoorCreatedBesideList ==
  /\ apiPc = "awaiting"
  /\ apiCall.fn = "createDoor"
  /\ apiRequests[1].method = "POST"
  /\ doors = DoorsDB

\* ------------------------------------------------------------------------
\* The door-list specification: getDoors as Home, MapView and any other
\* caller invoke it
\* ------------------------------------------------------------------------

InitGetDoors == InitHome \/ InitMap

NextGetDoors ==
  \/ /\ route = "/"
     /\ \/ \E c \in Categories \cup {None} : SelectCategory(c)
        \/ \E r \in net, ok \in BOOLEAN : DoorsResponse(r, ok)
  \/ /\ route = "/map"
     /\ NextMap
  \/ \E arg \in ApiArguments("getDoors") : ApiInvoke("getDoors", arg)
  \/ \E data \in ResponseData : ApiResolve(data)
  \/ \E error \in ResponseErrors : ApiReject(error)
  \/ ApiSettled

SpecGetDoors == InitGetDoors /\ [][NextGetDoors]_vars

\* C18: getDoors requests /doors?category=c when it is given the category
\* c, and /doors without a query when it is given null; every doors request
\* Home issues is for the category that is active when it is issued, and
\* every doors request of MapView is for the unfiltered list.
GetDoorsQuery ==
  /\ [](apiPc # "idle"
          => /\ apiCall.arg \in Categories
                  => apiRequests[1].url = << "/doors", "category", apiCall.arg >>
             /\ apiCall.arg = None => apiRequests[1].url = << "/doors" >>
             /\ apiRequests[1].method = "GET")
  /\ [][ \A r \in net' \ net : (r.kind = "doors" /\ r.live) 
                                   => r.arg = activeCategory' ]_vars
  /\ [](\A r \in mnet : r.arg = None)

\* getDoors is invoked for category 'A' while Home awaits the list of
\* category 'B'
FilteredListsRequested ==
  /\ apiPc = "awaiting" /\ apiCall.arg = "A"
  /\ activeCategory = "B"
  /\ \E r \in Pending("doors") : r.live /\ r.arg = "B"

\* markNotificationAsRead has returned after its single request
ApiReturned ==
  /\ apiPc = "returned"
  /\ apiCall.fn = "markNotificationAsRead"
  /\ Len(apiRequests) = 1
  /\ apiResponse.kind = "data"

====
